---- MODULE Spec2Model ----
(***************************************************************************)
(* State-machine model of gammapy.spectrum.fit.SpectrumFit                 *)
(* (src/gammapy/spectrum/fit.py).                                          *)
(*                                                                         *)
(* Energies are integers; an energy axis (e_reco) is the strictly          *)
(* increasing sequence of its bin edges, so an axis of n bins has n+1      *)
(* edges.  numpy indices are 0-based in the source; At(s, i) reads the     *)
(* element with numpy index i of the 1-based TLA+ sequence s.              *)
(* An optional value (None in the source) is the empty sequence <<>>, a    *)
(* value x that is present is <<x>>; fit_range is <<>> or <<lo, hi>>.      *)
(* Statistic values are fixed-point numbers in thousandths.                *)
(* A path is the sequence of its components from the root directory.       *)
(***************************************************************************)
EXTENDS Integers, Sequences, FiniteSets, TLC

VARIABLES
    phase,              \* "ready": __init__ returned; "failed": __init__ raised
    attrs,              \* names of the attributes __init__ has set
    obs_list,           \* self.obs_list
    model,              \* self.model: reference (heap address) of the live model
    heap,               \* model objects by address: [amplitude, unit]
    stat,               \* self.stat
    forward_folded,     \* self.forward_folded
    fit_range,          \* self._fit_range
    method,             \* self.method
    err_method,         \* self.err_method
    bins_in_fit_range,  \* self._bins_in_fit_range
    predicted_counts,   \* self.predicted_counts (optional)
    statval,            \* self.statval (optional)
    covar_axis,         \* self.covar_axis (optional)
    covariance,         \* self.covariance (optional)
    result,             \* self.result
    sherpa_fit,         \* self._sherpa_fit exists
    arg_err_method,     \* the err_method argument __init__ was called with
    cwd,                \* the working directory of the process (a path)
    dirs,               \* the directories that exist (paths)
    files,              \* the files that exist: [path, content]
    table,              \* EventList.table: the rows of an event list
    selected,           \* the table of the event list the last selection
                        \* returned (optional), with the selection made
    last                \* the last call: [op, err, npredict, niter]: what
                        \* was called, the error it raised, how many
                        \* predict_counts() calls completed and how many
                        \* evaluations the solver began in it, counted up
                        \* to one; for __init__ also the obs_list argument

vars == <<phase, attrs, obs_list, model, heap, stat, forward_folded, fit_range,
          method, err_method, bins_in_fit_range, predicted_counts, statval,
          covar_axis, covariance, result, sherpa_fit, arg_err_method,
          cwd, dirs, files, table, selected, last>>

(***************************************************************************)
(* Bounds of the model.                                                    *)
(***************************************************************************)
\* longest observation list
MaxObs == 2
\* fit range bounds are drawn from 0..MaxEnergy
MaxEnergy == 8
\* most records the result list is let grow to
MaxResults == 2
\* deepest directory, counted from the root, that run() is let enter
MaxDepth == 3
\* most rows of an event list
MaxEvents == 3
\* event energies are drawn from 1..MaxEventEnergy, band bounds from
\* 0..MaxEventEnergy + 1
MaxEventEnergy == 2

None == <<>>
Some(x) == <<x>>
At(s, i) == s[i + 1]
Range(s) == {s[i] : i \in 1..Len(s)}
Min(S) == CHOOSE x \in S : \A y \in S : x <= y
RECURSIVE SumSeq(_)
SumSeq(s) == IF s = <<>> THEN 0 ELSE Head(s) + SumSeq(Tail(s))
SeqsUpTo(S, n) == UNION {[1..k -> S] : k \in 0..n}

(***************************************************************************)
(* Observations.  e_reco: bin edges; has_quality: on_vector exposes a      *)
(* quality attribute; quality: its per-bin flags; n_on, n_off: counts of   *)
(* on_vector and off_vector; alpha; livetime.                              *)
(***************************************************************************)
Obs(e, hq, q, on, off, lt) ==
    [e_reco |-> e, has_quality |-> hq, quality |-> q,
     n_on |-> on, n_off |-> off, alpha |-> 1, livetime |-> lt]

AxisA == <<1, 3, 5, 7>>
AxisB == <<2, 4, 6>>

ObsA0 == Obs(AxisA, TRUE, <<0, 0, 0>>, <<1, 2, 1>>, <<1, 0, 2>>, 1)
ObsA1 == Obs(AxisA, TRUE, <<1, 0, 0>>, <<0, 2, 1>>, <<2, 1, 0>>, 1)
ObsA2 == Obs(AxisA, TRUE, <<0, 0, 1>>, <<1, 1, 0>>, <<0, 1, 1>>, 2)
ObsA3 == Obs(AxisA, TRUE, <<0, 2, 0>>, <<2, 1, 1>>, <<1, 1, 1>>, 1)
ObsB0 == Obs(AxisB, FALSE, <<>>, <<2, 1>>, <<1, 2>>, 2)
ObsB1 == Obs(AxisB, TRUE, <<0, 1>>, <<1, 0>>, <<0, 2>>, 1)

\* observations of the fit-range specification
MaskObservations == {ObsA0, ObsA1, ObsA2, ObsA3, ObsB0, ObsB1}
\* observations of the fit specification
FitObservations == {ObsA1, ObsB0}

Energies == 0..MaxEnergy
\* every fit range lo < hi over the grid, and None
FitRanges == {None} \cup {fr \in Energies \X Energies : fr[1] < fr[2]}
\* fit ranges of the fit specification: none, covering, on edges, straddling
\* bins, inside the last bin, wholly above AxisB, above every bin of AxisB
\* but its last edge
FitFitRanges == {None, <<0, 8>>, <<3, 5>>, <<2, 6>>, <<7, 8>>, <<5, 8>>}

\* amplitudes the live model is set to by the user and by the solver
Amplitudes == {1, 2}
Stats == {"cash", "wstat", "bogus"}
Methods == {"sherpa", "other"}

(***************************************************************************)
(* The fit-range selector: SpectrumFit._apply_fit_range.                   *)
(***************************************************************************)
\* energy.nbins
nbins(e) == Len(e) - 1

\* numpy indexing of an array of n elements: an index outside -n..n-1 raises
\* IndexError, a negative index counts from the end
InBounds(i, n) == -n <= i /\ i < n
Wrap(i, n) == IF i < 0 THEN i + n ELSE i

\* idx_lo = np.where(energy < self.fit_range[0])[0], over all edges
idx_lo(e, fr) == {i \in 0..(Len(e) - 1) : At(e, i) < fr[1]}

\* idx_hi = np.where(energy[:-1] > self.fit_range[1])[0], and if it is not
\* empty, np.insert(idx_hi, 0, idx_hi[0] - 1)
idx_hi(e, fr) ==
    LET hi0 == {i \in 0..(nbins(e) - 1) : At(e, i) > fr[2]}
    IN  IF hi0 # {} THEN {Min(hi0) - 1} \cup hi0 ELSE hi0

\* valid_range[idx_lo] = 1 or valid_range[idx_hi] = 1 raises IndexError
range_raises(obs, fr) ==
    /\ fr # None
    /\ \E i \in idx_lo(obs.e_reco, fr) \cup idx_hi(obs.e_reco, fr) :
          ~InBounds(i, nbins(obs.e_reco))

\* valid_range after the assignments: 1 marks a bin outside the fit range
valid_range(obs, fr) ==
    LET n == nbins(obs.e_reco)
        marked == IF fr = None THEN {}
                  ELSE {Wrap(i, n) : i \in idx_lo(obs.e_reco, fr)
                                          \cup idx_hi(obs.e_reco, fr)}
    IN  [b \in 1..n |-> IF (b - 1) \in marked THEN 1 ELSE 0]

\* a faulty variant of quality_of: an on vector without a quality attribute
\* counts as flagged bad in every bin
quality_of_required(obs) ==
    IF obs.has_quality THEN obs.quality
    ELSE [b \in 1..nbins(obs.e_reco) |-> 1]

\* quality = obs.on_vector.quality, or zeros on AttributeError
quality_of(obs) ==
    IF obs.has_quality THEN obs.quality
    ELSE [b \in 1..nbins(obs.e_reco) |-> 0]

\* convolved = np.logical_and(1 - quality, 1 - valid_range)
convolved(obs, fr) ==
    LET q == quality_of(obs)
        v == valid_range(obs, fr)
    IN  [b \in 1..nbins(obs.e_reco) |-> (1 - q[b] # 0) /\ (1 - v[b] # 0)]

\* _apply_fit_range over the observation list: the masks appended before the
\* first observation whose index assignment raises, and whether one raised
apply_fit_range(ol, fr) ==
    LET bad == {i \in 1..Len(ol) : range_raises(ol[i], fr)}
        stop == IF bad = {} THEN Len(ol) + 1 ELSE Min(bad)
    IN  [bins |-> [i \in 1..(stop - 1) |-> convolved(ol[i], fr)],
         err |-> IF bad = {} THEN "none" ELSE "IndexError"]

\* idx = np.where(binrange)[0]
where(binrange) == {i \in 0..(Len(binrange) - 1) : At(binrange, i)}
Max(S) == CHOOSE x \in S : \A y \in S : x >= y

\* true_fit_range raises: some zipped pair has no included bin (idx[0]), or
\* an included bin index beyond the observation's axis
true_fit_range_raises(bins, ol) ==
    \E i \in 1..Len(bins) :
       /\ i <= Len(ol)
       /\ \/ where(bins[i]) = {}
          \/ Max(where(bins[i])) + 1 > Len(ol[i].e_reco) - 1

\* the list true_fit_range returns: per zipped pair, the lower edge of the
\* first included bin and the upper edge of the last included bin
true_fit_range(bins, ol) ==
    LET n == IF Len(bins) < Len(ol) THEN Len(bins) ELSE Len(ol)
    IN  [i \in 1..n |-> <<At(ol[i].e_reco, Min(where(bins[i]))),
                          At(ol[i].e_reco, Max(where(bins[i])) + 1)>>]

(***************************************************************************)
(* Construction: SpectrumFit.__init__.                                     *)
(***************************************************************************)
Call(op, err, npredict, niter) ==
    [op |-> op, err |-> err, npredict |-> npredict, niter |-> niter]

\* the call of __init__, with the kind and the value of its obs_list argument
InitCall(err, kind, arg) ==
    [op |-> "init", err |-> err, npredict |-> 0, niter |-> 0,
     obs_list_kind |-> kind, obs_list_arg |-> arg]

\* a faulty variant of wrap_observation: the observation is left out of the
\* list
wrap_observation_dropped(o) == <<>>

\* SpectrumObservationList([obs_list]) for a single SpectrumObservation
wrap_observation(o) == <<o>>

\* self.err_method as __init__ sets it from its arguments method, err_method
init_err_method(m, em) == m

\* __init__(obs_list, model, stat, forward_folded, fit_range, method,
\* err_method).  kind is the type of the obs_list argument: a
\* SpectrumObservationList (ol), a single SpectrumObservation (o) or anything
\* else; a and un are the amplitude of the model passed in and the unit its
\* integral carries.
Constructor(kind, ol, o, a, un, st, ff, fr, m, em) ==
    LET given == IF kind = "single" THEN wrap_observation(o) ELSE ol
        r == apply_fit_range(given, fr)
        arg == IF kind = "single" THEN o
               ELSE IF kind = "list" THEN ol ELSE "not observations"
    IN  /\ heap = <<[amplitude |-> a, unit |-> un]>>
        /\ model = 1
        /\ arg_err_method = em
        /\ predicted_counts = None
        /\ statval = None
        /\ covar_axis = None
        /\ covariance = None
        /\ result = <<>>
        /\ sherpa_fit = FALSE
        /\ IF kind = "invalid"
           THEN \* raise ValueError before any attribute is set
                /\ phase = "failed"
                /\ attrs = {}
                /\ obs_list = <<>>
                /\ stat = "unset"
                /\ forward_folded = FALSE
                /\ fit_range = None
                /\ bins_in_fit_range = <<>>
                /\ method = "unset"
                /\ err_method = "unset"
                /\ last = InitCall("ValueError", kind, arg)
           ELSE /\ obs_list = given
                /\ stat = st
                /\ forward_folded = ff
                /\ fit_range = fr
                /\ bins_in_fit_range = r.bins
                /\ IF r.err # "none"
                   THEN \* the fit_range setter raised out of __init__
                        /\ phase = "failed"
                        /\ attrs = {"obs_list", "model", "stat",
                                    "forward_folded", "_fit_range",
                                    "_bins_in_fit_range"}
                        /\ method = "unset"
                        /\ err_method = "unset"
                        /\ last = InitCall(r.err, kind, arg)
                   ELSE /\ phase = "ready"
                        /\ attrs = {"obs_list", "model", "stat",
                                    "forward_folded", "_fit_range",
                                    "_bins_in_fit_range", "method",
                                    "err_method", "predicted_counts",
                                    "statval", "covar_axis", "covariance",
                                    "result"}
                        /\ method = m
                        /\ err_method = init_err_method(m, em)
                        /\ last = InitCall("none", kind, arg)

\* the process and the event list outside the SpectrumFit: the working
\* directory is the home directory, nothing has been written, and no event
\* list is loaded
Home == <<"home">>
Process ==
    /\ cwd = Home
    /\ dirs = {<<>>, Home}
    /\ files = {}
Environment ==
    /\ Process
    /\ table = <<>>
    /\ selected = None

(***************************************************************************)
(* Assignments to fit_range (the property setter) and to obs_list (a       *)
(* plain attribute).                                                       *)
(***************************************************************************)
\* fit.fit_range = fr: self._fit_range = fit_range; self._apply_fit_range()
SetFitRange(fr) ==
    /\ phase = "ready"
    /\ fit_range' = fr
    /\ bins_in_fit_range' = apply_fit_range(obs_list, fr).bins
    /\ last' = Call("set_fit_range", apply_fit_range(obs_list, fr).err, 0, 0)
    /\ UNCHANGED <<phase, attrs, obs_list, model, heap, stat, forward_folded,
                   method, err_method, predicted_counts, statval, covar_axis,
                   covariance, result, sherpa_fit, arg_err_method,
                   cwd, dirs, files, table, selected>>

\* fit.obs_list = ol
SetObsList(ol) ==
    /\ phase = "ready"
    /\ obs_list' = ol
    /\ last' = Call("set_obs_list", "none", 0, 0)
    /\ UNCHANGED <<phase, attrs, model, heap, stat, forward_folded, fit_range,
                   method, err_method, bins_in_fit_range, predicted_counts,
                   statval, covar_axis, covariance, result, sherpa_fit,
                   arg_err_method, cwd, dirs, files, table, selected>>

(***************************************************************************)
(* MaskSpec: construction over every fit range and observation list, then  *)
(* any sequence of assignments to fit_range and obs_list.                  *)
(***************************************************************************)
MaskInit ==
    \E kind \in {"list", "single", "invalid"},
       ol \in SeqsUpTo(MaskObservations, MaxObs),
       o \in MaskObservations,
       fr \in FitRanges :
          /\ Constructor(kind, ol, o, 1, "ct", "wstat", TRUE, fr, "sherpa",
                         "sherpa")
          /\ Environment

AssignFitRange == \E fr \in FitRanges : SetFitRange(fr)
AssignObsList == \E ol \in SeqsUpTo(FitObservations, MaxObs) : SetObsList(ol)

MaskNext == AssignFitRange \/ AssignObsList

MaskSpec == MaskInit /\ [][MaskNext]_vars

(***************************************************************************)
(* The forward-folding predictor: predict_counts, _predict_counts_helper.  *)
(***************************************************************************)
\* self.model.integral(binning[:-1], binning[1:]) of a model with a flat
\* spectrum of the given amplitude: one value per bin
model_integral(m, e) ==
    [b \in 1..nbins(e) |-> m.amplitude * (e[b + 1] - e[b])]

\* calculate_predicted_counts(model, livetime, aeff, edisp, e_reco): the
\* model folded with a unit effective area and a diagonal energy dispersion,
\* times the livetime
calculate_predicted_counts(m, obs) ==
    [b \in 1..nbins(obs.e_reco) |->
        obs.livetime * m.amplitude * (obs.e_reco[b + 1] - obs.e_reco[b])]

\* a faulty variant of unit_ok: every unit passes
unit_ok_any(m) == TRUE

\* cond = counts.unit.is_equivalent('ct') or counts.unit.is_equivalent('')
unit_ok(m) == m.unit = "ct" \/ m.unit = ""

\* _predict_counts_helper(obs): counts.value when the unit check passes
predict_counts_helper(obs, m, ff) ==
    IF ff THEN calculate_predicted_counts(m, obs)
    ELSE model_integral(m, obs.e_reco)

\* predict_counts(): the list stored to self.predicted_counts, or ValueError
\* raised by the helper for the first observation
predict_counts(ol, m, ff) ==
    [err |-> IF ol # <<>> /\ ~unit_ok(m) THEN "ValueError" ELSE "none",
     counts |-> [i \in 1..Len(ol) |-> predict_counts_helper(ol[i], m, ff)]]

(***************************************************************************)
(* The statistic evaluator: stats.cash, stats.wstat, calc_statval,         *)
(* _calc_statval_helper, _restrict_statval.                                *)
(***************************************************************************)
\* 1000 * ln(x), rounded, for x = 1..24
LnMilli ==
    <<0, 693, 1099, 1386, 1609, 1792, 1946, 2079, 2197, 2303, 2398, 2485,
      2565, 2639, 2708, 2773, 2833, 2890, 2944, 2996, 3045, 3091, 3135, 3178>>

\* stats.cash: 2 * (mu_on - n_on * ln(mu_on)), in thousandths
cash(n_on, mu_on) == 2 * (1000 * mu_on - n_on * LnMilli[mu_on])

\* stats.wstat at alpha = 1, in thousandths, rounded:
\* WstatMilli[n_on + 1][n_off + 1][mu_sig] for n_on, n_off = 0..2, mu_sig = 1..24
WstatMilli ==
  <<<<<<2000, 4000, 6000, 8000, 10000, 12000, 14000, 16000, 18000, 20000, 22000, 24000, 26000, 28000, 30000, 32000, 34000, 36000, 38000, 40000, 42000, 44000, 46000, 48000>>,
      <<3386, 5386, 7386, 9386, 11386, 13386, 15386, 17386, 19386, 21386, 23386, 25386, 27386, 29386, 31386, 33386, 35386, 37386, 39386, 41386, 43386, 45386, 47386, 49386>>,
      <<4773, 6773, 8773, 10773, 12773, 14773, 16773, 18773, 20773, 22773, 24773, 26773, 28773, 30773, 32773, 34773, 36773, 38773, 40773, 42773, 44773, 46773, 48773, 50773>>>>,
    <<<<0, 614, 1803, 3227, 4781, 6416, 8108, 9841, 11606, 13395, 15204, 17030, 18870, 20722, 22584, 24455, 26334, 28219, 30111, 32009, 33911, 35818, 37729, 39644>>,
      <<452, 1510, 2859, 4365, 5968, 7636, 9352, 11103, 12881, 14681, 16500, 18333, 20180, 22037, 23904, 25779, 27661, 29550, 31445, 33345, 35250, 37159, 39072, 40989>>,
      <<1257, 2517, 3967, 5533, 7175, 8870, 10606, 12372, 14162, 15973, 17799, 19640, 21492, 23354, 25225, 27104, 28990, 30882, 32780, 34682, 36589, 38501, 40416, 42334>>>>,
    <<<<773, 0, 378, 1227, 2335, 3606, 4989, 6455, 7984, 9562, 11181, 12833, 14513, 16216, 17940, 19682, 21440, 23211, 24995, 26790, 28594, 30408, 32231, 34060>>,
      <<0, 300, 1052, 2086, 3303, 4646, 6080, 7584, 9142, 10744, 12381, 14049, 15742, 17457, 19191, 20942, 22707, 24485, 26275, 28075, 29884, 31703, 33529, 35362>>,
      <<243, 904, 1861, 3019, 4318, 5717, 7194, 8730, 10314, 11936, 13591, 15273, 16978, 18704, 20447, 22205, 23977, 25762, 27557, 29362, 31177, 32999, 34829, 36666>>>>>>

wstat(n_on, n_off, alpha, mu_sig) == WstatMilli[n_on + 1][n_off + 1][mu_sig]

stat_supported(st) == st = "cash" \/ st = "wstat"

\* numpy broadcasting of two one-dimensional arrays of m and n elements:
\* the shapes agree when they are equal or one of them is 1; the result has
\* the length of the longer, and an array of one element is repeated
broadcastable(m, n) == m = n \/ m = 1 \/ n = 1
broadcast_len(m, n) == IF m = 1 THEN n ELSE m
bc(s, b) == IF Len(s) = 1 THEN s[1] ELSE s[b]

\* what _calc_statval_helper(obs, prediction) raises: NotImplementedError
\* for an unsupported statistic, ValueError from the statistic when counts
\* and prediction cannot be broadcast together
calc_statval_helper_err(obs, prediction, st) ==
    IF ~stat_supported(st) THEN "NotImplementedError"
    ELSE IF \/ ~broadcastable(Len(obs.n_on), Len(prediction))
            \/ /\ st = "wstat"
               /\ \/ ~broadcastable(Len(obs.n_on), Len(obs.n_off))
                  \/ ~broadcastable(
                        broadcast_len(Len(obs.n_on), Len(obs.n_off)),
                        Len(prediction))
    THEN "ValueError"
    ELSE "none"

\* _calc_statval_helper(obs, prediction) when it does not raise: the per-bin
\* statistic
calc_statval_helper(obs, prediction, st) ==
    IF st = "cash"
    THEN [b \in 1..broadcast_len(Len(obs.n_on), Len(prediction)) |->
             cash(bc(obs.n_on, b), bc(prediction, b))]
    ELSE [b \in 1..broadcast_len(
                      broadcast_len(Len(obs.n_on), Len(obs.n_off)),
                      Len(prediction)) |->
             wstat(bc(obs.n_on, b), bc(obs.n_off, b), obs.alpha,
                   bc(prediction, b))]

\* a faulty variant of _restrict_statval: the mask is not applied
restrict_statval_unmasked(sv, bins) == [err |-> "none", statval |-> sv]

\* _restrict_statval() on self.statval = sv: np.where(valid_range, statval, 0)
\* per zipped pair.  np.where raises ValueError when a mask and its array
\* cannot be broadcast together, and self.statval then stays sv.
restrict_statval(sv, bins) ==
    LET n == IF Len(sv) < Len(bins) THEN Len(sv) ELSE Len(bins)
        bad == {i \in 1..n : ~broadcastable(Len(bins[i]), Len(sv[i]))}
    IN  IF bad # {}
        THEN [err |-> "ValueError", statval |-> sv]
        ELSE [err |-> "none",
              statval |->
                 [i \in 1..n |->
                    [b \in 1..broadcast_len(Len(bins[i]), Len(sv[i])) |->
                        IF bc(bins[i], b) THEN bc(sv[i], b) ELSE 0]]]

\* a faulty variant of calc_statval: a statval computed earlier for as many
\* observations is handed back instead of being computed anew
calc_statval_cached(ol, counts, st, bins) ==
    LET n == IF Len(ol) < Len(counts) THEN Len(ol) ELSE Len(counts)
        errs == {i \in 1..n :
                    calc_statval_helper_err(ol[i], counts[i], st) # "none"}
        raw == [i \in 1..n |-> calc_statval_helper(ol[i], counts[i], st)]
        r == restrict_statval(raw, bins)
    IN  IF errs # {}
        THEN [err |-> calc_statval_helper_err(ol[Min(errs)],
                                              counts[Min(errs)], st),
              stored |-> FALSE, statval |-> <<>>]
        ELSE IF statval # None /\ Len(statval[1]) = n
        THEN [err |-> "none", stored |-> TRUE, statval |-> statval[1]]
        ELSE [err |-> r.err, stored |-> TRUE, statval |-> r.statval]

\* what the loop of calc_statval() over the zipped pairs raises: the
\* helper's error for the first pair that raises
calc_statval_err(ol, counts, st) ==
    LET n == IF Len(ol) < Len(counts) THEN Len(ol) ELSE Len(counts)
        errs == [i \in 1..n |->
                    calc_statval_helper_err(ol[i], counts[i], st)]
    IN  Head(SelectSeq(errs, LAMBDA e : e # "none") \o <<"none">>)

\* calc_statval() given the list in self.predicted_counts: the error it
\* raises, whether self.statval was assigned, and the list it then holds.
\* An error of the helper leaves self.statval alone; an error of
\* _restrict_statval() leaves in it the unrestricted list that was assigned
\* just before.
calc_statval(ol, counts, st, bins) ==
    LET n == IF Len(ol) < Len(counts) THEN Len(ol) ELSE Len(counts)
        e == calc_statval_err(ol, counts, st)
    IN  IF e # "none"
        THEN [err |-> e, stored |-> FALSE, statval |-> <<>>]
        ELSE [stored |-> TRUE] @@
             restrict_statval(
                [i \in 1..n |-> calc_statval_helper(ol[i], counts[i], st)],
                bins)

(***************************************************************************)
(* The fit: predict_counts, calc_statval, fit, _fit_sherpa,                *)
(* _make_fit_result, est_errors, _est_errors_sherpa.                       *)
(***************************************************************************)
Rest == <<phase, attrs, obs_list, model, stat, forward_folded, fit_range,
          method, err_method, bins_in_fit_range, arg_err_method, table,
          selected>>
Disk == <<cwd, dirs, files>>

\* fit.predict_counts() called by the user
PredictCounts ==
    LET pr == predict_counts(obs_list, heap[model], forward_folded)
    IN  /\ phase = "ready"
        /\ predicted_counts' = IF pr.err = "none" THEN Some(pr.counts)
                               ELSE predicted_counts
        /\ last' = Call("predict_counts", pr.err,
                        IF pr.err = "none" THEN 1 ELSE 0, 0)
        /\ UNCHANGED <<Rest, Disk, heap, statval, covar_axis, covariance,
                       result, sherpa_fit>>

\* fit.calc_statval() called by the user; zip over predicted_counts = None
\* raises TypeError
CalcStatval ==
    /\ phase = "ready"
    /\ IF predicted_counts = None
       THEN /\ last' = Call("calc_statval", "TypeError", 0, 0)
            /\ UNCHANGED statval
       ELSE LET sv == calc_statval(obs_list, predicted_counts[1], stat,
                                   bins_in_fit_range)
            IN  /\ statval' = IF sv.stored THEN Some(sv.statval)
                              ELSE statval
                /\ last' = Call("calc_statval", sv.err, 0, 0)
    /\ UNCHANGED <<Rest, Disk, heap, predicted_counts, covar_axis, covariance,
                   result, sherpa_fit>>

\* the user sets a parameter of the live model
MutateModel(a) ==
    /\ phase = "ready"
    /\ heap[model].amplitude # a
    /\ heap' = [heap EXCEPT ![model].amplitude = a]
    /\ last' = Call("mutate", "none", 0, 0)
    /\ UNCHANGED <<Rest, Disk, predicted_counts, statval, covar_axis,
                   covariance, result, sherpa_fit>>

\* the user gives the live model's amplitude another unit, which changes the
\* unit its integral carries
MutateUnit(un) ==
    /\ phase = "ready"
    /\ heap[model].unit # un
    /\ heap' = [heap EXCEPT ![model].unit = un]
    /\ last' = Call("mutate", "none", 0, 0)
    /\ UNCHANGED <<Rest, Disk, predicted_counts, statval, covar_axis,
                   covariance, result, sherpa_fit>>

\* The model objects and the attributes of the SpectrumFit that fit() and
\* est_errors() assign, as one value s; Store(s) makes s the next state.
Self ==
    [heap |-> heap, predicted_counts |-> predicted_counts,
     statval |-> statval, covar_axis |-> covar_axis,
     covariance |-> covariance, result |-> result, sherpa_fit |-> sherpa_fit]

Store(s) ==
    /\ heap' = s.heap
    /\ predicted_counts' = s.predicted_counts
    /\ statval' = s.statval
    /\ covar_axis' = s.covar_axis
    /\ covariance' = s.covariance
    /\ result' = s.result
    /\ sherpa_fit' = s.sherpa_fit

\* what a call left behind: the attributes, the error it raised, and the
\* counts kept in last
Outcome(s, err, npredict, niter) ==
    [self |-> s, err |-> err, npredict |-> npredict, niter |-> niter]

\* One evaluation of the objective by the solver with the live model at m:
\* SherpaModel.calc sets the parameters and calls predict_counts(), then
\* SherpaStat calls calc_statval() and sums self.statval.
Evaluate(s, m) ==
    LET evaluated(pr, sv) ==
           [err |-> IF pr.err # "none" THEN pr.err ELSE sv.err,
            npredict |-> IF pr.err = "none" THEN 1 ELSE 0,
            counts |-> IF pr.err = "none" THEN Some(pr.counts)
                       ELSE s.predicted_counts,
            statval |-> IF pr.err = "none" /\ sv.stored
                        THEN Some(sv.statval) ELSE s.statval]
        predicted(pr) ==
           evaluated(pr, calc_statval(obs_list, pr.counts, stat,
                                      bins_in_fit_range))
    IN  predicted(predict_counts(obs_list, m, forward_folded))

\* model = self.model.copy(): a new model object with the same content
model_copy(hp, ref) == Append(hp, hp[ref])

\* a faulty variant of _make_fit_result: the records hold the live model
\* itself instead of a copy
make_fit_result_shared(res, hp, live, ol, bins, st, sv, pc) ==
    [heap |-> hp,
     result |-> res \o
        [i \in 1..Len(ol) |->
           [model |-> live, covariance |-> None, covar_axis |-> None,
            fit_range |-> true_fit_range(bins, ol)[i], statname |-> st,
            statval |-> SumSeq(sv[i]), npred |-> pc[i], obs |-> ol[i]]]]

\* _make_fit_result() when true_fit_range does not raise: one record per
\* observation appended to self.result, each with its own copy of the model
\* (record i of this call holds the i-th copy, at address Len(hp) + i)
make_fit_result(res, hp, live, ol, bins, st, sv, pc) ==
    [heap |-> hp \o [i \in 1..Len(ol) |-> model_copy(hp, live)[Len(hp) + 1]],
     result |-> res \o
        [i \in 1..Len(ol) |->
           [model |-> Len(hp) + i, covariance |-> None, covar_axis |-> None,
            fit_range |-> true_fit_range(bins, ol)[i], statname |-> st,
            statval |-> SumSeq(sv[i]), npred |-> pc[i], obs |-> ol[i]]]]

\* a faulty variant of make_fit_result_raising: the range of each observation
\* is computed on its own, so the records of the observations before the
\* first one with an empty mask are appended before the error is raised
make_fit_result_partial(res, hp, live, ol, bins, st, sv, pc) ==
    LET k == Min({i \in 1..Len(ol) :
                     true_fit_range_raises(SubSeq(bins, 1, i),
                                           SubSeq(ol, 1, i))}) - 1
    IN  make_fit_result(res, hp, live, SubSeq(ol, 1, k), SubSeq(bins, 1, k),
                        st, sv, pc)

\* _make_fit_result() when true_fit_range raises: the property computes the
\* ranges of the whole list, so it raises in the first pass of the loop,
\* before any record is appended
make_fit_result_raising(res, hp, live, ol, bins, st, sv, pc) ==
    [heap |-> hp, result |-> res]

\* a faulty variant of the dispatch in fit(): every method runs the fit
fit_method_any(m) == TRUE

\* fit(): self.method == 'sherpa'
fit_method_ok(m) == m = "sherpa"

\* fit(): dispatch on self.method; _fit_sherpa() reads obs_list[0], builds
\* the solver's Fit object and runs it (the first evaluation at the current
\* parameters, the last at the best-fit amplitude a), then
\* _make_fit_result().
fit(s, a) ==
    LET s1 == [s EXCEPT !.sherpa_fit = TRUE]
        best == [s.heap[model] EXCEPT !.amplitude = a]
        hp == [s.heap EXCEPT ![model] = best]
        \* the observations that have a mask
        k == IF Len(bins_in_fit_range) < Len(obs_list)
             THEN Len(bins_in_fit_range) ELSE Len(obs_list)
        made(ev, mk, err) ==
           Outcome([s1 EXCEPT !.predicted_counts = ev.counts,
                              !.statval = ev.statval,
                              !.heap = mk.heap,
                              !.result = mk.result],
                   err, 1, 1)
        \* _make_fit_result() after the solver's last evaluation ev: the
        \* records of the observations that have a mask; for the first one
        \* without, self.true_fit_range[idx] raises IndexError
        solved(ev) ==
           IF true_fit_range_raises(bins_in_fit_range, obs_list)
           THEN made(ev,
                     make_fit_result_raising(
                        s.result, hp, model, obs_list, bins_in_fit_range,
                        stat, ev.statval[1], ev.counts[1]),
                     "IndexError")
           ELSE made(ev,
                     make_fit_result(
                        s.result, hp, model, SubSeq(obs_list, 1, k),
                        bins_in_fit_range, stat, ev.statval[1],
                        ev.counts[1]),
                     IF k < Len(obs_list) THEN "IndexError" ELSE "none")
        \* the solver after its first evaluation
        started(first) ==
           IF first.err # "none"
           THEN Outcome([s1 EXCEPT !.predicted_counts = first.counts,
                                   !.statval = first.statval],
                        first.err, first.npredict, 1)
           ELSE solved(Evaluate(s, best))
    IN  IF ~fit_method_ok(method)
        THEN Outcome(s, "NotImplementedError", 0, 0)
        ELSE IF obs_list = <<>>
        THEN Outcome(s, "IndexError", 0, 0)
        ELSE started(Evaluate(s, s.heap[model]))

\* fit.fit() called by the user
Fit ==
    /\ phase = "ready"
    /\ Len(result) + Len(obs_list) <= MaxResults
    /\ \E r \in {fit(Self, a) : a \in Amplitudes} :
          /\ Store(r.self)
          /\ last' = Call("fit", r.err, r.npredict, r.niter)
    /\ UNCHANGED <<Rest, Disk>>

\* est_errors(): self.err_method == 'sherpa'
err_method_ok(em) == em = "sherpa"

\* covar.parnames of the solver, each name as its dot-separated components
ParNames == << <<"powerlaw", "index">>, <<"powerlaw", "amplitude">> >>
\* covar.extra_output: the covariance matrices the solver may return
Covariances == {"covar_1", "covar_2"}
\* what the solver's error estimation does: return a covariance, or raise
SolverOutcomes == Covariances \cup {"EstErr"}

\* a faulty variant of last_component: the first component is taken
first_component(name) == name[1]

\* name = par.split('.')[-1]
last_component(name) == name[Len(name)]

\* a faulty variant of has_sherpa_fit: the solver's Fit object is taken to
\* exist before any fit
has_sherpa_fit_always(s) == TRUE

\* covar = self._sherpa_fit.est_errors(): the attribute _sherpa_fit exists
\* (it is assigned by _fit_sherpa only)
has_sherpa_fit(s) == s.sherpa_fit

\* est_errors(): dispatch on self.err_method; _est_errors_sherpa() reads
\* self._sherpa_fit (AttributeError before any fit) and runs the solver's
\* estimation (the first evaluation at the current parameters; then the
\* solver raises, or the last evaluation is with the live model at amplitude
\* a and the solver returns c), stores covar_axis and covariance, then copies
\* both into every record.
est_errors(s, a, c) ==
    LET m == [s.heap[model] EXCEPT !.amplitude = a]
        axis == [i \in 1..Len(ParNames) |-> last_component(ParNames[i])]
        \* the lines after the solver returned c, its last evaluation ev
        estimated(ev) ==
           Outcome(
              [s EXCEPT
                  !.heap = [s.heap EXCEPT ![model] = m],
                  !.predicted_counts = ev.counts,
                  !.statval = ev.statval,
                  !.covar_axis = Some(axis),
                  !.covariance = Some(c),
                  !.result = [i \in 1..Len(s.result) |->
                     [s.result[i] EXCEPT
                         !.covar_axis = Some(axis),
                         !.covariance = Some(c)]]],
              "none", 1, 1)
        kept(first) == [s EXCEPT !.predicted_counts = first.counts,
                                 !.statval = first.statval]
        \* the solver after its first evaluation
        started(first) ==
           IF first.err # "none"
           THEN Outcome(kept(first), first.err, first.npredict, 1)
           ELSE IF c \notin Covariances
           THEN Outcome(kept(first), c, 1, 1)
           ELSE estimated(Evaluate(s, m))
    IN  IF ~err_method_ok(err_method)
        THEN Outcome(s, "NotImplementedError", 0, 0)
        ELSE IF ~has_sherpa_fit(s)
        THEN Outcome(s, "AttributeError", 0, 0)
        ELSE started(Evaluate(s, s.heap[model]))

\* fit.est_errors() called by the user
EstErrors ==
    /\ phase = "ready"
    /\ \E r \in {est_errors(Self, a, c) :
                    a \in Amplitudes, c \in SolverOutcomes} :
          /\ Store(r.self)
          /\ last' = Call("est_errors", r.err, r.npredict, r.niter)
    /\ UNCHANGED <<Rest, Disk>>

(***************************************************************************)
(* run(): the output directory, the fit, the error estimation and the      *)
(* result file.                                                            *)
(***************************************************************************)
\* outdir arguments of run(): None, a directory below the working
\* directory, a directory whose parent does not exist
OutDirs == {None, Some(<<"out">>), Some(<<"missing", "out">>)}

\* outdir = cwd if outdir is None else make_path(outdir), resolved against
\* the working directory
resolve_outdir(c, outdir) == IF outdir = None THEN c ELSE c \o outdir[1]

parent(p) == SubSeq(p, 1, Len(p) - 1)

\* outdir.mkdir(exist_ok=True): the directories afterwards, or
\* FileNotFoundError when the parent directory does not exist
mkdir(ds, p) ==
    IF p \in ds THEN [err |-> "none", dirs |-> ds]
    ELSE IF parent(p) \notin ds
    THEN [err |-> "FileNotFoundError", dirs |-> ds]
    ELSE [err |-> "none", dirs |-> ds \cup {p}]

\* self.result[0].model.__class__.__name__: every model is a power law
modelname(m) == "PowerLaw"

\* 'fit_result_{}.yaml'.format(modelname)
filename(name) == <<"fit_result_", name, ".yaml">>

\* result[0].to_yaml(filename): the record as written, with the parameters
\* of its model
to_yaml(rec, hp) == [rec EXCEPT !.model = hp[rec.model]]

\* the file at path p is written with content, replacing what was there
write_file(fs, p, content) ==
    {f \in fs : f.path # p} \cup {[path |-> p, content |-> content]}

\* a faulty variant of run_steps: the errors are estimated before the fit
run_steps_est_first(s, a1, a2, c) ==
    LET then(e) == IF e.err # "none" THEN e ELSE fit(e.self, a1)
    IN  then(est_errors(s, a2, c))

\* self.fit(); self.est_errors(): the second is not reached when the first
\* raises
run_steps(s, a1, a2, c) ==
    LET then(f) == IF f.err # "none" THEN f ELSE est_errors(f.self, a2, c)
    IN  then(fit(s, a1))

\* run(outdir) from the attributes s and the disk d = [cwd, dirs, files]: the
\* attributes and the disk it leaves, and the error it raised.  Nothing
\* restores the working directory when fit() or est_errors() raises.
run(s, d, outdir, a1, a2, c) ==
    LET out == resolve_outdir(d.cwd, outdir)
        md == mkdir(d.dirs, out)
        d1 == [d EXCEPT !.dirs = md.dirs, !.cwd = out]
        written(r) ==
           write_file(d.files,
              out \o <<filename(modelname(r.self.heap[r.self.result[1].model]))>>,
              to_yaml(r.self.result[1], r.self.heap))
        \* the lines after self.fit() and self.est_errors(), which left r
        finish(r) ==
           IF r.err # "none"
           THEN [self |-> r.self, disk |-> d1, out |-> out, from |-> d.cwd,
                 err |-> r.err, npredict |-> r.npredict, niter |-> r.niter]
           ELSE [self |-> r.self,
                 disk |-> [d1 EXCEPT !.files = written(r), !.cwd = d.cwd],
                 out |-> out, from |-> d.cwd, err |-> "none",
                 npredict |-> r.npredict, niter |-> r.niter]
    IN  IF md.err # "none"
        THEN [self |-> s, disk |-> d, out |-> out, from |-> d.cwd,
              err |-> md.err, npredict |-> 0, niter |-> 0]
        ELSE finish(run_steps(s, a1, a2, c))

\* the call of run(), with the output directory it resolved and the
\* working directory it was called in
RunCall(err, npredict, niter, out, from) ==
    [op |-> "run", err |-> err, npredict |-> npredict, niter |-> niter,
     outdir |-> out, cwd |-> from]

\* fit.run(outdir) called by the user
Run(outdir) ==
    /\ phase = "ready"
    /\ Len(result) + Len(obs_list) <= MaxResults
    /\ Len(resolve_outdir(cwd, outdir)) <= MaxDepth
    /\ \E r \in {run(Self, [cwd |-> cwd, dirs |-> dirs, files |-> files],
                      outdir, a1, a2, c) :
                    a1 \in Amplitudes, a2 \in Amplitudes,
                    c \in SolverOutcomes} :
          /\ Store(r.self)
          /\ cwd' = r.disk.cwd
          /\ dirs' = r.disk.dirs
          /\ files' = r.disk.files
          /\ last' = RunCall(r.err, r.npredict, r.niter, r.out, r.from)
    /\ UNCHANGED Rest

(***************************************************************************)
(* Spec: construction, then any sequence of calls of predict_counts,       *)
(* calc_statval, fit and est_errors and of changes to the live model.      *)
(***************************************************************************)
Units == {"ct", "", "TeV"}

Init ==
    \E kind \in {"list", "single", "invalid"},
       ol \in SeqsUpTo(FitObservations, MaxObs),
       o \in FitObservations,
       un \in Units, st \in Stats, ff \in BOOLEAN,
       fr \in FitFitRanges, m \in Methods, em \in Methods :
          /\ Constructor(kind, ol, o, 1, un, st, ff, fr, m, em)
          /\ Environment

SetAmplitude == \E a \in Amplitudes : MutateModel(a)

Next == PredictCounts \/ CalcStatval \/ SetAmplitude \/ Fit \/ EstErrors

Spec == Init /\ [][Next]_vars

(***************************************************************************)
(* PredictSpec: construction, then any sequence of calls of                *)
(* predict_counts and of changes to the amplitude and the unit of the live *)
(* model.                                                                  *)
(***************************************************************************)
PredictInit ==
    \E kind \in {"list", "single"},
       ol \in SeqsUpTo(FitObservations, MaxObs),
       o \in FitObservations,
       un \in Units, ff \in BOOLEAN :
          /\ Constructor(kind, ol, o, 1, un, "wstat", ff, None, "sherpa",
                         "sherpa")
          /\ Environment

SetUnit == \E un \in Units : MutateUnit(un)

PredictNext == PredictCounts \/ SetAmplitude \/ SetUnit

PredictSpec == PredictInit /\ [][PredictNext]_vars

(***************************************************************************)
(* RunSpec: construction, then any sequence of calls of run and fit and of *)
(* changes to the live model.                                              *)
(***************************************************************************)
RunInit ==
    \E ol \in SeqsUpTo(FitObservations, MaxObs),
       un \in {"ct", "TeV"}, st \in {"wstat", "bogus"},
       fr \in {None, <<5, 8>>}, m \in Methods :
          /\ Constructor("list", ol, ObsA1, 1, un, st, TRUE, fr, m, "sherpa")
          /\ Environment

RunAny == \E outdir \in OutDirs : Run(outdir)

RunNext == RunAny \/ Fit \/ SetAmplitude

RunSpec == RunInit /\ [][RunNext]_vars

(***************************************************************************)
(* Event lists (src/gammapy/data/event_list.py): an event list is the      *)
(* sequence of the rows of its table, each with the energy of the event    *)
(* and its offset from the pointing position.                              *)
(***************************************************************************)
EventEnergies == 1..MaxEventEnergy
EventOffsets == {0, 1}
Events == [energy : EventEnergies, offset : EventOffsets]
\* energy_band and offset_band arguments: <<min, max>>
Bands == (0..(MaxEventEnergy + 1)) \X (0..(MaxEventEnergy + 1))

\* self.energy: self.table['ENERGY'].quantity
energy(t) == [i \in 1..Len(t) |-> t[i].energy]

\* self.offset: the separation of each event from the pointing position
offset(t) == [i \in 1..Len(t) |-> t[i].offset]

\* a faulty variant of band_mask: the band is closed at its upper bound
band_mask_closed(values, band) ==
    [i \in 1..Len(values) |-> band[1] <= values[i] /\ values[i] <= band[2]]

\* mask = (band[0] <= values); mask &= (values < band[1])
band_mask(values, band) ==
    [i \in 1..Len(values) |-> band[1] <= values[i] /\ values[i] < band[2]]

\* select_row_subset(row_specifier) for a boolean mask: the table of the
\* new event list, self.table[row_specifier]
RECURSIVE select_row_subset(_, _)
select_row_subset(t, mask) ==
    IF t = <<>> THEN <<>>
    ELSE (IF Head(mask) THEN <<Head(t)>> ELSE <<>>)
         \o select_row_subset(Tail(t), Tail(mask))

select_energy(t, energy_band) ==
    select_row_subset(t, band_mask(energy(t), energy_band))

select_offset(t, offset_band) ==
    select_row_subset(t, band_mask(offset(t), offset_band))

\* the call of a selection, with its band
SelectCall(op, band) ==
    [op |-> op, err |-> "none", npredict |-> 0, niter |-> 0, band |-> band]

FitVars == <<phase, attrs, obs_list, model, heap, stat, forward_folded,
             fit_range, method, err_method, bins_in_fit_range,
             predicted_counts, statval, covar_axis, covariance, result,
             sherpa_fit, arg_err_method>>

\* events.select_energy(energy_band)
SelectEnergy(band) ==
    /\ selected' = Some(select_energy(table, band))
    /\ last' = SelectCall("select_energy", band)
    /\ UNCHANGED <<FitVars, Disk, table>>

\* events.select_offset(offset_band)
SelectOffset(band) ==
    /\ selected' = Some(select_offset(table, band))
    /\ last' = SelectCall("select_offset", band)
    /\ UNCHANGED <<FitVars, Disk, table>>

\* events = events.select_...(band): the name is bound to the returned list
Rebind ==
    /\ selected # None
    /\ table' = selected[1]
    /\ selected' = None
    /\ last' = [op |-> "rebind", err |-> "none", npredict |-> 0, niter |-> 0]
    /\ UNCHANGED <<FitVars, Disk>>

(***************************************************************************)
(* EventSpec: an event list, then any sequence of selections.              *)
(***************************************************************************)
EventInit ==
    \E t \in SeqsUpTo(Events, MaxEvents) :
       /\ Constructor("list", <<>>, ObsA0, 1, "ct", "wstat", TRUE, None,
                      "sherpa", "sherpa")
       /\ Process
       /\ table = t
       /\ selected = None

SelectEnergyAny == \E band \in Bands : SelectEnergy(band)
SelectOffsetAny == \E band \in Bands : SelectOffset(band)

EventNext == SelectEnergyAny \/ SelectOffsetAny \/ Rebind

EventSpec == EventInit /\ [][EventNext]_vars

(***************************************************************************)
(* Claims about the fit-range selector, checked under MaskSpec.            *)
(***************************************************************************)
\* the masks were just computed: the last call was __init__ or an
\* assignment to fit_range
MaskFresh == phase = "ready" /\ last.op \in {"init", "set_fit_range"}

lower_edge(obs, b) == obs.e_reco[b]
upper_edge(obs, b) == obs.e_reco[b + 1]

\* C1: after construction and after every assignment to fit_range, every
\* observation has a mask, and a bin is excluded from it if and only if a
\* range is set and the bin's upper edge is below the lower bound, or a range
\* is set and the bin's lower edge is above the upper bound, or the bin is
\* flagged bad quality (quality flag 1).
C1_MaskIsRangeAndQuality ==
    MaskFresh =>
       /\ Len(bins_in_fit_range) = Len(obs_list)
       /\ \A i \in 1..Len(obs_list) :
             \A b \in 1..nbins(obs_list[i].e_reco) :
                ~bins_in_fit_range[i][b] <=>
                   \/ fit_range # None /\ upper_edge(obs_list[i], b) < fit_range[1]
                   \/ fit_range # None /\ lower_edge(obs_list[i], b) > fit_range[2]
                   \/ quality_of(obs_list[i])[b] = 1

\* C2: whenever the upper bound of the fit range lies strictly inside a bin
\* of an observation's axis, that bin is excluded from the observation's
\* mask, whichever bin it is.
C2_StraddledBinExcluded ==
    (MaskFresh /\ last.err = "none" /\ fit_range # None) =>
       \A i \in 1..Len(obs_list) :
          \A b \in 1..nbins(obs_list[i].e_reco) :
             (/\ lower_edge(obs_list[i], b) < fit_range[2]
              /\ fit_range[2] < upper_edge(obs_list[i], b))
                => ~bins_in_fit_range[i][b]

\* C3: every range true_fit_range returns runs from the lower edge of the
\* observation's first included bin to the upper edge of its last included
\* bin, both edges of the observation's axis, and when a fit range is set
\* both lie within [fit_range[0], fit_range[1]].
C3_TrueRangeWithinRequested ==
    (MaskFresh /\ last.err = "none"
       /\ ~true_fit_range_raises(bins_in_fit_range, obs_list)) =>
       \A i \in 1..Len(obs_list) :
          LET tr == true_fit_range(bins_in_fit_range, obs_list)[i]
          IN  /\ tr[1] \in Range(obs_list[i].e_reco)
              /\ tr[2] \in Range(obs_list[i].e_reco)
              /\ fit_range # None =>
                    /\ fit_range[1] <= tr[1] /\ tr[1] <= fit_range[2]
                    /\ fit_range[1] <= tr[2] /\ tr[2] <= fit_range[2]

\* C8: at every point after construction the mask list has one entry per
\* observation of obs_list, each the mask computed from the current
\* fit_range and that observation.
C8_MasksFollowObsAndRange ==
    phase = "ready" =>
       /\ Len(bins_in_fit_range) = Len(obs_list)
       /\ \A i \in 1..Len(obs_list) :
             ~range_raises(obs_list[i], fit_range) =>
                bins_in_fit_range[i] = convolved(obs_list[i], fit_range)

\* C11: the fit range is closed at its lower bound and open at its upper
\* bound: a good-quality bin whose lower edge equals fit_range[0] and whose
\* upper edge does not exceed fit_range[1] is included, and a bin whose lower
\* edge equals fit_range[1] is excluded, whichever bin it is, the last bin of
\* the axis included.
C11_HalfOpenFitRange ==
    (MaskFresh /\ last.err = "none" /\ fit_range # None) =>
       \A i \in 1..Len(obs_list) :
          \A b \in 1..nbins(obs_list[i].e_reco) :
             /\ (/\ quality_of(obs_list[i])[b] = 0
                 /\ lower_edge(obs_list[i], b) = fit_range[1]
                 /\ upper_edge(obs_list[i], b) <= fit_range[2])
                   => bins_in_fit_range[i][b]
             /\ lower_edge(obs_list[i], b) = fit_range[2]
                   => ~bins_in_fit_range[i][b]

\* an observation without bad-quality flags: every flag is 0, or the on
\* vector has no quality attribute
no_bad_quality(obs) ==
    \/ ~obs.has_quality
    \/ \A b \in 1..nbins(obs.e_reco) : obs.quality[b] = 0

\* C12: when no fit range is set, the mask of an observation without
\* bad-quality flags (all flags 0, or no quality attribute on the on vector)
\* includes every bin of the observation.
C12_NoRangeNoFlagsIncludesAll ==
    (MaskFresh /\ last.err = "none" /\ fit_range = None) =>
       /\ Len(bins_in_fit_range) = Len(obs_list)
       /\ \A i \in 1..Len(obs_list) :
             no_bad_quality(obs_list[i]) =>
                /\ Len(bins_in_fit_range[i]) = nbins(obs_list[i].e_reco)
                /\ \A b \in 1..nbins(obs_list[i].e_reco) :
                      bins_in_fit_range[i][b]

\* an assignment fit_range = None has recomputed the masks of a list holding
\* an observation with all flags 0 and one without a quality attribute
C12_Witness ==
    /\ MaskFresh /\ last.op = "set_fit_range" /\ last.err = "none"
    /\ fit_range = None
    /\ \E i \in 1..Len(obs_list) :
          obs_list[i].has_quality /\ no_bad_quality(obs_list[i])
    /\ \E i \in 1..Len(obs_list) : ~obs_list[i].has_quality

\* C19: a bin is included in the mask only if its quality flag is 0: every
\* bin with a nonzero flag (1 or any other value such as 2) is excluded,
\* whatever the fit range.
C19_OnlyZeroQualityIncluded ==
    (MaskFresh /\ last.err = "none") =>
       \A i \in 1..Len(obs_list) :
          \A b \in 1..nbins(obs_list[i].e_reco) :
             bins_in_fit_range[i][b] => quality_of(obs_list[i])[b] = 0

\* C16: the constructor wraps a single SpectrumObservation into a
\* one-element list, stores a SpectrumObservationList unchanged, and for any
\* other obs_list argument raises ValueError before any attribute (obs_list,
\* mask, result) is set.
C16_ObsListArgument ==
    last.op = "init" =>
       /\ last.obs_list_kind = "single" =>
             /\ "obs_list" \in attrs
             /\ obs_list = <<last.obs_list_arg>>
       /\ last.obs_list_kind = "list" =>
             /\ "obs_list" \in attrs
             /\ obs_list = last.obs_list_arg
       /\ last.obs_list_kind \notin {"single", "list"} =>
             /\ last.err = "ValueError"
             /\ phase = "failed"
             /\ attrs = {}

\* a SpectrumFit constructed from a single observation, with its mask
C16_Witness ==
    /\ last.op = "init" /\ last.obs_list_kind = "single"
    /\ phase = "ready"
    /\ Len(obs_list) = 1 /\ obs_list[1] = last.obs_list_arg
    /\ Len(bins_in_fit_range) = 1

(***************************************************************************)
(* Claims about the fit, checked under Spec.                               *)
(***************************************************************************)
\* the per-bin statistic of observation i for the stored predicted counts
PerBinStat(i) ==
    calc_statval_helper(obs_list[i], predicted_counts[1][i], stat)

RECURSIVE SumOver(_, _)
SumOver(f, S) ==
    IF S = {} THEN 0
    ELSE LET x == CHOOSE y \in S : TRUE IN f[x] + SumOver(f, S \ {x})

\* calc_statval() has just completed, called by the user or by the solver
StatvalFresh ==
    /\ phase = "ready"
    /\ last.op \in {"calc_statval", "fit", "est_errors"}
    /\ last.err \in {"none", "IndexError"}
    /\ last.op = "calc_statval" \/ last.niter = 1

\* C4: after calc_statval(), for every observation the stored statval array
\* equals the per-bin statistic at the bins of the fit mask and is 0 at every
\* other bin, and its sum is the sum of the per-bin statistic over the bins
\* of the mask.
C4_StatvalRestrictedToMask ==
    StatvalFresh =>
       /\ statval # None
       /\ Len(statval[1]) = Len(obs_list)
       /\ \A i \in 1..Len(obs_list) :
             /\ Len(statval[1][i]) = nbins(obs_list[i].e_reco)
             /\ \A b \in 1..nbins(obs_list[i].e_reco) :
                   statval[1][i][b] =
                      IF bins_in_fit_range[i][b] THEN PerBinStat(i)[b] ELSE 0
             /\ SumSeq(statval[1][i]) =
                   SumOver(PerBinStat(i),
                           {b \in 1..nbins(obs_list[i].e_reco) :
                               bins_in_fit_range[i][b]})

\* C4 witness: calc_statval() has run on an observation with a bin outside
\* the mask whose statistic is not 0 and a bin inside the mask.
C4_Witness ==
    /\ StatvalFresh
    /\ last.op = "calc_statval"
    /\ \E i \in 1..Len(obs_list) :
          /\ \E b \in 1..nbins(obs_list[i].e_reco) :
                ~bins_in_fit_range[i][b] /\ PerBinStat(i)[b] # 0
          /\ \E b \in 1..nbins(obs_list[i].e_reco) :
                bins_in_fit_range[i][b] /\ statval[1][i][b] # 0

\* C5: a SpectrumFit whose statistic name is unsupported is rejected before
\* any counts are predicted and before the solver evaluates anything: no
\* call on it completes a predict_counts() or begins an evaluation.
C5_UnsupportedStatFailsFast ==
    (phase = "ready" /\ ~stat_supported(stat)) =>
       last.npredict = 0 /\ last.niter = 0

\* C6: once fit() has appended a record, no later step changes the
\* parameter values of the record's model or the record's npred.
C6_ResultIsSnapshot ==
    [][\A i \in 1..Len(result) :
          /\ i <= Len(result')
          /\ result'[i].model = result[i].model
          /\ heap'[result[i].model] = heap[result[i].model]
          /\ result'[i].npred = result[i].npred]_vars

\* C6 witness: a record whose model and npred differ from the live model and
\* the stored predicted counts after a later est_errors().
C6_Witness ==
    /\ result # <<>>
    /\ last.op = "est_errors" /\ last.err = "none"
    /\ heap[result[1].model] # heap[model]
    /\ result[1].npred # predicted_counts[1][1]

\* C7: after every successful fit() the result list holds exactly one record
\* per observation, in observation order, each built from that call's
\* best-fit model, true fit range, statistic name, summed statistic and
\* predicted counts.
C7_OneRecordPerObservation ==
    (phase = "ready" /\ last.op = "fit" /\ last.err = "none") =>
       /\ Len(result) = Len(obs_list)
       /\ \A i \in 1..Len(obs_list) :
             /\ result[i].obs = obs_list[i]
             /\ heap[result[i].model] = heap[model]
             /\ result[i].fit_range =
                   true_fit_range(bins_in_fit_range, obs_list)[i]
             /\ result[i].statname = stat
             /\ result[i].statval = SumSeq(statval[1][i])
             /\ result[i].npred = predicted_counts[1][i]

\* C13 is checked under PredictSpec, where the unit of the live model changes
\* between calls.
\* C13: predict_counts() stores in predicted_counts one unit-stripped array
\* per observation, in the order of obs_list, when the prediction of every
\* observation is dimensionless or in counts; when the prediction of any
\* observation carries another unit it raises, and predicted_counts keeps
\* the value it had before the call.
C13_PredictCountsStoresOrKeeps ==
    [][last'.op = "predict_counts" =>
          IF obs_list # <<>> /\ heap[model].unit \notin {"ct", ""}
          THEN /\ last'.err # "none"
               /\ predicted_counts' = predicted_counts
          ELSE /\ last'.err = "none"
               /\ predicted_counts' # None
               /\ Len(predicted_counts'[1]) = Len(obs_list)
               /\ \A i \in 1..Len(obs_list) :
                     predicted_counts'[1][i] =
                        [b \in 1..nbins(obs_list[i].e_reco) |->
                            (IF forward_folded THEN obs_list[i].livetime
                             ELSE 1)
                            * heap[model].amplitude
                            * (upper_edge(obs_list[i], b)
                               - lower_edge(obs_list[i], b))]]_vars

\* predict_counts() has raised on a unit that is neither counts nor
\* dimensionless, and predicted_counts still holds the arrays of an earlier
\* call
C13_Witness ==
    /\ last.op = "predict_counts" /\ last.err = "ValueError"
    /\ heap[model].unit = "TeV"
    /\ Len(obs_list) = MaxObs
    /\ predicted_counts # None
    /\ Len(predicted_counts[1]) = Len(obs_list)

\* C14: est_errors() writes the newly estimated covariance and the
\* parameter-name axis (the last dot-separated component of each solver
\* parameter name, in the solver's order) into every record of result and
\* into the SpectrumFit, and leaves every other field of every record
\* (model, fit_range, statname, statval, npred, obs) unchanged.
C14_EstErrorsWritesCovariance ==
    [][(last'.op = "est_errors" /\ last'.err = "none") =>
          /\ covariance' # None
          /\ covariance'[1] \in Covariances
          /\ covar_axis' = Some(<<"index", "amplitude">>)
          /\ Len(result') = Len(result)
          /\ \A i \in 1..Len(result) :
                /\ result'[i] = [result[i] EXCEPT
                                    !.covariance = covariance',
                                    !.covar_axis = covar_axis']
                /\ heap'[result'[i].model] = heap[result[i].model]]_vars

\* est_errors() has completed on a result list of more than one record: all
\* carry the covariance and the axis of the SpectrumFit, and the live model
\* has moved away from the model of the first record
C14_Witness ==
    /\ last.op = "est_errors" /\ last.err = "none"
    /\ Len(result) > 1
    /\ \A i \in 1..Len(result) :
          /\ result[i].covariance = covariance
          /\ result[i].covar_axis = covar_axis
    /\ heap[model].amplitude # heap[result[1].model].amplitude

\* the statval arrays as a function of the observations, the statistic, the
\* fit range and the live model alone
Objective ==
    [i \in 1..Len(obs_list) |->
       LET pred == predict_counts_helper(obs_list[i], heap[model],
                                         forward_folded)
           sv == calc_statval_helper(obs_list[i], pred, stat)
       IN  [b \in 1..nbins(obs_list[i].e_reco) |->
              IF convolved(obs_list[i], fit_range)[b] THEN sv[b] ELSE 0]]

\* C17: the objective is deterministic: predict_counts() followed by
\* calc_statval() leaves in statval arrays (and so sums) that depend only on
\* the observations, the statistic, the fit range and the model parameters,
\* not on what was predicted, evaluated, fitted or estimated before.
C17_ObjectiveIsDeterministic ==
    [][(/\ last.op = "predict_counts" /\ last.err = "none"
        /\ last'.op = "calc_statval" /\ last'.err = "none") =>
          statval' = Some(Objective)]_vars

\* calc_statval() has completed on fresh predictions after a fit and an
\* error estimation, with the live model changed since the fit
C17_Witness ==
    /\ last.op = "calc_statval" /\ last.err = "none"
    /\ result # <<>> /\ covariance # None
    /\ heap[model].amplitude # heap[result[1].model].amplitude
    /\ predicted_counts =
          Some(predict_counts(obs_list, heap[model], forward_folded).counts)
    /\ statval = Some(Objective)
    /\ \E i \in 1..Len(obs_list) : SumSeq(statval[1][i]) # 0

\* some observation's mask has no included bin
EmptyMask ==
    \E i \in 1..Len(bins_in_fit_range) : where(bins_in_fit_range[i]) = {}

\* C20: if the mask of any observation has no included bin, true_fit_range
\* raises for the whole list, and a fit() in that state raises without
\* appending any record to result.
C20_EmptyMaskFailsWholeFit ==
    [][(last'.op = "fit" /\ EmptyMask) =>
          /\ true_fit_range_raises(bins_in_fit_range, obs_list)
          /\ last'.err # "none"
          /\ result' = result]_vars

\* fit() has raised at the result assembly for a list whose first
\* observation has included bins and whose second has none
C20_Witness ==
    /\ last = Call("fit", "IndexError", 1, 1)
    /\ Len(obs_list) = 2
    /\ where(bins_in_fit_range[1]) # {}
    /\ where(bins_in_fit_range[2]) = {}
    /\ result = <<>>
    /\ predicted_counts # None /\ statval # None

\* C21: est_errors() called before any fit() (no solver fit object exists
\* yet) fails with an error, AttributeError when err_method is supported, and
\* leaves covariance and covar_axis at None and the result list empty;
\* covariance is not None only in states reached after a fit() has invoked
\* the optimizer.
C21_EstErrorsNeedsFit ==
    [][/\ (last'.op = "est_errors" /\ ~sherpa_fit) =>
             /\ last'.err # "none"
             /\ err_method_ok(err_method) => last'.err = "AttributeError"
             /\ covariance' = None
             /\ covar_axis' = None
             /\ result' = <<>>
       /\ covariance' # None => sherpa_fit'
       /\ (sherpa_fit' /\ ~sherpa_fit) => last'.op = "fit" /\ last'.niter = 1
      ]_vars

\* est_errors() has failed on a SpectrumFit on which nothing was predicted,
\* evaluated or fitted before
C21_Witness ==
    /\ last.op = "est_errors" /\ last.err = "AttributeError"
    /\ ~sherpa_fit
    /\ obs_list # <<>> /\ method = "sherpa"
    /\ stat_supported(stat) /\ unit_ok(heap[model])
    /\ predicted_counts = None /\ statval = None
    /\ covariance = None /\ covar_axis = None /\ result = <<>>

\* C9: for a SpectrumFit constructed with method 'sherpa' and an unsupported
\* err_method, est_errors() (here after a fit has built the solver's Fit
\* object) raises NotImplementedError.
C9_ErrMethodSelectsBackend ==
    (/\ phase = "ready" /\ last.op = "est_errors"
     /\ method = "sherpa" /\ ~err_method_ok(arg_err_method)
     /\ sherpa_fit) =>
       last.err = "NotImplementedError"

\* C10: fit() with a method other than 'sherpa' raises NotImplementedError
\* before the solver is invoked and before any counts are predicted, and
\* leaves result, predicted_counts, statval, covariance and the model
\* parameters unchanged.
C10_UnsupportedMethodLeavesState ==
    [][(last'.op = "fit" /\ method # "sherpa") =>
          /\ last'.err = "NotImplementedError"
          /\ last'.niter = 0 /\ last'.npredict = 0
          /\ ~sherpa_fit'
          /\ UNCHANGED <<result, predicted_counts, statval, covariance,
                         covar_axis, heap, model>>]_vars

\* C10 witness: fit() has raised NotImplementedError on a SpectrumFit with an
\* unsupported method that holds predicted counts and a statistic.
C10_Witness ==
    /\ last.op = "fit" /\ method # "sherpa"
    /\ last.err = "NotImplementedError"
    /\ predicted_counts # None /\ statval # None
    /\ obs_list # <<>>

(***************************************************************************)
(* Claims about run(), checked under RunSpec.                              *)
(***************************************************************************)
\* C15: run() writes the file fit_result_<ModelClassName>.yaml only after
\* fit() and then est_errors() have both completed without error, in that
\* order, so that the record written is result[0] carrying the estimated
\* covariance; if fit() or est_errors() raises, no file is written.
C15_FileOnlyAfterFitAndErrors ==
    [][/\ files' # files => (last'.op = "run" /\ last'.err = "none")
       /\ (last'.op = "run" /\ last'.err # "none") => files' = files
       /\ (last'.op = "run" /\ last'.err = "none") =>
             \* fit() appended its records, est_errors() then wrote the
             \* covariance into all of them
             /\ Len(result') = Len(result) + Len(obs_list)
             /\ covariance' # None
             /\ \A i \in 1..Len(result') :
                   /\ result'[i].covariance = covariance'
                   /\ result'[i].covar_axis = covar_axis'
             /\ files' = {f \in files : f.path # last'.outdir \o
                             << <<"fit_result_", "PowerLaw", ".yaml">> >>}
                  \cup {[path |-> last'.outdir \o
                             << <<"fit_result_", "PowerLaw", ".yaml">> >>,
                         content |-> [result'[1] EXCEPT
                                        !.model = heap'[result'[1].model]]]}
      ]_vars

\* run("out") has completed after an earlier fit(): the file in the output
\* directory holds the first record of result, which is the earlier fit's
\* and carries the covariance of this run
C15_Witness ==
    /\ last.op = "run" /\ last.err = "none"
    /\ last.outdir = Home \o <<"out">>
    /\ Len(result) > Len(obs_list)
    /\ covariance # None
    /\ \E f \in files :
          /\ f.path = Home \o <<"out", <<"fit_result_", "PowerLaw", ".yaml">> >>
          /\ f.content.covariance = covariance
          /\ f.content.statval = result[1].statval
          /\ f.content.model = heap[result[1].model]

\* C22: run(outdir) leaves the working directory of the process at the
\* directory that was current when it was called, on every exit: when it
\* returns and when fit(), est_errors() or the file write raises.
C22_RunRestoresCwd ==
    last.op = "run" => cwd = last.cwd

(***************************************************************************)
(* Claims about event lists, checked under EventSpec.                      *)
(***************************************************************************)
\* the k-th smallest element of a set of row numbers
nth(S, k) == CHOOSE i \in S : Cardinality({j \in S : j <= i}) = k

\* C18: select_energy(energy_band) returns a new event list holding exactly
\* the rows with energy_band[0] <= energy < energy_band[1], in their
\* original order, and leaves the original table unchanged; select_offset
\* applies the same half-open rule to the offset.
C18_SelectionIsHalfOpenBand ==
    [][last'.op \in {"select_energy", "select_offset"} =>
          LET value(i) == IF last'.op = "select_energy" THEN table[i].energy
                          ELSE table[i].offset
              rows == {i \in 1..Len(table) :
                          last'.band[1] <= value(i) /\ value(i) < last'.band[2]}
          IN  /\ table' = table
              /\ selected' # None
              /\ Len(selected'[1]) = Cardinality(rows)
              /\ \A k \in 1..Cardinality(rows) :
                    selected'[1][k] = table[nth(rows, k)]]_vars

\* select_energy has kept an event at the lower bound of the band and
\* dropped an event at its upper bound, from a table holding an event of the
\* higher energy before one of the lower
C18_Witness ==
    /\ last.op = "select_energy"
    /\ \E i, j \in 1..Len(table) :
          /\ i < j
          /\ table[i].energy = last.band[2]
          /\ table[j].energy = last.band[1]
    /\ selected # None
    /\ selected[1] # <<>>
    /\ \A k \in 1..Len(selected[1]) : selected[1][k].energy = last.band[1]

====
